---- MODULE Spec2Model ----
(***************************************************************************)
(* Model of terraform-provider-opsecret (internal/provider):               *)
(*   - OPSecretReferenceProvider.Configure: token selection and client     *)
(*     construction;                                                       *)
(*   - secretReferenceDataSource.Read: direct resolution of a secret       *)
(*     reference and the vault -> item -> file fallback.                   *)
(* Go strings are sequences of one-character strings, byte slices are      *)
(* sequences of numbers in 0..255.  The 1Password client is an external    *)
(* collaborator: each of its calls answers with any result of a bounded    *)
(* set.                                                                    *)
(***************************************************************************)
EXTENDS Integers, Sequences, FiniteSets, TLC

VARIABLES
    \* ---- secretReferenceDataSource.Read ----
    pc,            \* position of the Read handler
    ref,           \* secretReference (state.ID.ValueString())
    resolvedReferenceValue, \* what Secrets().Resolve returned
    pathElements,  \* local of resolveFileContentByReference
    vaultId,       \* local of resolveFileContentByReference
    itemId,        \* local of resolveFileContentByReference
    listing,       \* the list a lookup helper is scanning (vaults, items, itemDetails.Files)
    fileAttr,      \* fileAttachment.Attributes handed to Files().Read
    rawValue,      \* bytes returned by resolveFileContentByReference
    stateValue,    \* state.Value, the handler's local model
    respState,     \* resp.State
    diags,         \* resp.Diagnostics of Read
    calls,         \* client calls made by this Read, in order, with their outcome
    \* ---- OPSecretReferenceProvider.Configure ----
    ppc,           \* position of the provider's Configure
    cfgToken,      \* config.ServiceAccountToken (types.String)
    envToken,      \* os.Getenv("OP_SERVICE_ACCOUNT_TOKEN")
    token,         \* local token
    newClientArgs, \* tokens handed to onepassword.NewClient, in order
    pdiags,        \* resp.Diagnostics of Configure
    dataSourceData,\* resp.DataSourceData
    resourceData   \* resp.ResourceData

readVars == <<pc, ref, resolvedReferenceValue, pathElements, vaultId, itemId, listing, fileAttr,
              rawValue, stateValue, respState, diags, calls>>
confVars == <<ppc, cfgToken, envToken, token, newClientArgs, pdiags,
              dataSourceData, resourceData>>
vars == <<pc, ref, resolvedReferenceValue, pathElements, vaultId, itemId, listing, fileAttr,
          rawValue, stateValue, respState, diags, calls,
          ppc, cfgToken, envToken, token, newClientArgs, pdiags,
          dataSourceData, resourceData>>

----------------------------------------------------------------------------
(* Bounds of the model *)

\* longest reference, in '/'-separated segments after the prefix
MaxSegs == 4
\* longest vault, item or attachment list the client returns
MaxList == 2
\* longest attachment content, in bytes
MaxBytes == 3
\* longest token and longest directly resolved secret, in characters
MaxStr == 2

----------------------------------------------------------------------------
(* Strings *)

\* vault, item and file names of the references and of the listings
Names == { <<"a">>, <<"b">> }

\* the characters a token is made of: a plain one, and the two %q escapes
TokenChars == { "t", "\"", "\\" }

\* the characters of a directly resolved secret: plain and whitespace
SecretChars == { "s", " ", "\n" }

\* byte values of attachment contents: space and 0xFF
ByteVals == { 32, 255 }

SeqsUpTo(S, n) == UNION { [1..k -> S] : k \in 0..n }

\* "op://"
Prefix == <<"o", "p", ":", "/", "/">>

\* strings.Join(segs, "/")
RECURSIVE Join(_)
Join(segs) ==
    IF Len(segs) = 0 THEN <<>>
    ELSE IF Len(segs) = 1 THEN segs[1]
    ELSE segs[1] \o <<"/">> \o Join(Tail(segs))

\* the references Read is called with: op://s1/.../sk, and one too short to
\* hold the prefix
Refs ==
    { Prefix \o Join(segs) : segs \in (SeqsUpTo(Names, MaxSegs) \ { <<>> }) }
    \cup { <<"o", "p", ":">> }

\* length of the "op://" prefix skipped by secretReference[5:]
PrefixLen == 5

\* secretReference[5:] is a run-time panic (slice bounds out of range) when
\* the reference is shorter than the prefix
SliceInRange(s) == Len(s) >= PrefixLen

SkipPrefix(s) == SubSeq(s, PrefixLen + 1, Len(s))

\* strings.Split(s, "/"): always at least one element, "" splits to <<"">>
RECURSIVE Split(_)
Split(s) ==
    IF \A i \in 1..Len(s) : s[i] # "/" THEN << s >>
    ELSE LET i == CHOOSE k \in 1..Len(s) :
                      s[k] = "/" /\ \A j \in 1..(k - 1) : s[j] # "/"
         IN  << SubSeq(s, 1, i - 1) >> \o Split(SubSeq(s, i + 1, Len(s)))

\* unicode.IsSpace on the characters of the model
IsSpace(c) == c \in { " ", "\t", "\n", "\r" }

\* strings.TrimSpace
RECURSIVE TrimLeft(_)
TrimLeft(s) ==
    IF Len(s) > 0 /\ IsSpace(s[1]) THEN TrimLeft(Tail(s)) ELSE s

RECURSIVE TrimRight(_)
TrimRight(s) ==
    IF Len(s) > 0 /\ IsSpace(s[Len(s)])
    THEN TrimRight(SubSeq(s, 1, Len(s) - 1)) ELSE s

TrimSpace(s) == TrimRight(TrimLeft(s))

\* base64.StdEncoding: the RFC 4648 alphabet, '=' padding
Alphabet ==
    << "A","B","C","D","E","F","G","H","I","J","K","L","M",
       "N","O","P","Q","R","S","T","U","V","W","X","Y","Z",
       "a","b","c","d","e","f","g","h","i","j","k","l","m",
       "n","o","p","q","r","s","t","u","v","w","x","y","z",
       "0","1","2","3","4","5","6","7","8","9","+","/" >>

PadChar == "="

Enc(n) == Alphabet[(n % 64) + 1]

\* base64.RawStdEncoding.EncodeToString: the same without padding
RECURSIVE EncodeToStringRaw(_)
EncodeToStringRaw(b) ==
    IF Len(b) = 0 THEN <<>>
    ELSE IF Len(b) = 1 THEN
        LET v == b[1] * 65536
        IN  << Enc(v \div 262144), Enc(v \div 4096) >>
    ELSE IF Len(b) = 2 THEN
        LET v == b[1] * 65536 + b[2] * 256
        IN  << Enc(v \div 262144), Enc(v \div 4096), Enc(v \div 64) >>
    ELSE
        LET v == b[1] * 65536 + b[2] * 256 + b[3]
        IN  << Enc(v \div 262144), Enc(v \div 4096), Enc(v \div 64), Enc(v) >>
            \o EncodeToStringRaw(SubSeq(b, 4, Len(b)))

\* base64.StdEncoding.EncodeToString
RECURSIVE EncodeToString(_)
EncodeToString(b) ==
    IF Len(b) = 0 THEN <<>>
    ELSE IF Len(b) = 1 THEN
        LET v == b[1] * 65536
        IN  << Enc(v \div 262144), Enc(v \div 4096), PadChar, PadChar >>
    ELSE IF Len(b) = 2 THEN
        LET v == b[1] * 65536 + b[2] * 256
        IN  << Enc(v \div 262144), Enc(v \div 4096), Enc(v \div 64), PadChar >>
    ELSE
        LET v == b[1] * 65536 + b[2] * 256 + b[3]
        IN  << Enc(v \div 262144), Enc(v \div 4096), Enc(v \div 64), Enc(v) >>
            \o EncodeToString(SubSeq(b, 4, Len(b)))

\* fmt.Sprintf("%q", s) on the characters of the model: the string in double
\* quotes, with '"' and '\' escaped by a backslash
RECURSIVE Escape(_)
Escape(s) ==
    IF Len(s) = 0 THEN <<>>
    ELSE (IF s[1] \in { "\"", "\\" } THEN << "\\", s[1] >> ELSE << s[1] >>)
         \o Escape(Tail(s))

Quote(s) == << "\"" >> \o Escape(s) \o << "\"" >>

----------------------------------------------------------------------------
(* types.String of terraform-plugin-framework *)

StringNull      == [kind |-> "null",    value |-> <<>>]
StringUnknown   == [kind |-> "unknown", value |-> <<>>]
StringValue(s)  == [kind |-> "known",   value |-> s]

IsUnknown(t) == t.kind = "unknown"

\* ValueString: the known value, "" for null and unknown
ValueString(t) == IF t.kind = "known" THEN t.value ELSE <<>>

\* String(): the human-readable form, "<unknown>", "<null>", or the value
\* quoted with %q
StringString(t) ==
    IF t.kind = "unknown" THEN << "<unknown>" >>
    ELSE IF t.kind = "null" THEN << "<null>" >>
    ELSE Quote(t.value)

----------------------------------------------------------------------------
(* Go errors and diagnostics *)

Nil      == [nil |-> TRUE,  msg |-> <<>>]
Error(m) == [nil |-> FALSE, msg |-> m]

\* err.Error()
Msg(e) == e.msg

\* the message of the SDK when a reference points to a file
FileContentErrorMsg ==
    << "error resolving secret reference: unable to retrieve file content, currently only text files are supported" >>

\* other failures of a client call: an API failure, and one that only
\* contains the file-content message
OtherErrorMsgs ==
    { << "permission denied" >>,
      << "rpc: " >> \o FileContentErrorMsg }

ClientErrorMsgs == OtherErrorMsgs \cup { FileContentErrorMsg }

\* Diagnostics.AddError(summary, detail)
Diag(summary, detail) == [summary |-> summary, detail |-> detail]

\* Diagnostics.HasError()
HasError(d) == Len(d) > 0

----------------------------------------------------------------------------
(* What the 1Password client answers *)

NoId == 0

IDs == 1..MaxList

DistinctIDs(l) == \A i, j \in 1..Len(l) : l[i].ID = l[j].ID => i = j

\* []VaultOverview and []ItemOverview: ID and Title, IDs unique
VaultLists ==
    { l \in SeqsUpTo([ID : IDs, Title : Names], MaxList) : DistinctIDs(l) }

ItemLists == VaultLists

\* Item.Files, each entry the Attributes of one attachment: ID and Name
FileLists ==
    { l \in SeqsUpTo([ID : IDs, Name : Names], MaxList) : DistinctIDs(l) }

NoAttr == [ID |-> NoId, Name |-> <<>>]

\* contents of an attachment
Contents == SeqsUpTo(ByteVals, MaxBytes)

\* directly resolved secrets
Secrets == SeqsUpTo(SecretChars, MaxStr)

\* one client call in the trace of a Read
Call(op, arg, err) == [op |-> op, arg |-> arg, err |-> err]

----------------------------------------------------------------------------
(* secretReferenceDataSource: the pure parts *)

\* err.Error() == "error resolving secret reference: ..." (any error taken
\* for the file-content error)
IsFileContentErrorAny(err) == TRUE

\* err.Error() == "error resolving secret reference: ..."
IsFileContentError(err) == Msg(err) = FileContentErrorMsg

\* types.StringValue(strings.TrimSpace(resolvedReferenceValue))
DirectValueTrimmed(resolved) == StringValue(TrimSpace(resolved))

\* types.StringValue(resolvedReferenceValue)
DirectValue(resolved) == StringValue(resolved)

\* types.StringValue(strings.TrimSpace(base64.RawStdEncoding.EncodeToString(rawValue)))
FileValueRaw(raw) == StringValue(TrimSpace(EncodeToStringRaw(raw)))

\* types.StringValue(strings.TrimSpace(base64.StdEncoding.EncodeToString(rawValue)))
FileValue(raw) == StringValue(TrimSpace(EncodeToString(raw)))

\* the range loops: index of the last element equal to name, 0 when none
LastMatch(names, name) ==
    IF \E i \in 1..Len(names) : names[i] = name
    THEN CHOOSE i \in 1..Len(names) :
             names[i] = name /\ \A j \in (i + 1)..Len(names) : names[j] # name
    ELSE 0

\* the range loops: index of the first element equal to name, 0 when none
FirstMatch(names, name) ==
    IF \E i \in 1..Len(names) : names[i] = name
    THEN CHOOSE i \in 1..Len(names) :
             names[i] = name /\ \A j \in 1..(i - 1) : names[j] # name
    ELSE 0

Titles(l) == [i \in 1..Len(l) |-> l[i].Title]
FileNames(l) == [i \in 1..Len(l) |-> l[i].Name]

\* fmt.Errorf("vault '%s' not found", vaultName)
vaultNotFound(vaultName) ==
    Error(<< "vault '" >> \o vaultName \o << "' not found" >>)

\* fmt.Errorf("file '%s' not found", fileName), in getItemId
itemNotFoundAsFile(fileName) ==
    Error(<< "file '" >> \o fileName \o << "' not found" >>)

\* fmt.Errorf("item '%s' not found", fileName)
itemNotFound(fileName) ==
    Error(<< "item '" >> \o fileName \o << "' not found" >>)

\* fmt.Errorf("file '%s' not found", fileName)
fileNotFound(fileName) ==
    Error(<< "file '" >> \o fileName \o << "' not found" >>)

\* getVaultId after Vaults().List succeeded
getVaultId(vaults, vaultName) ==
    LET i == FirstMatch(Titles(vaults), vaultName)
    IN  IF i # 0 THEN [id |-> vaults[i].ID, err |-> Nil]
        ELSE [id |-> NoId, err |-> vaultNotFound(vaultName)]

\* getItemId after Items().List succeeded
getItemId(items, fileName) ==
    LET i == FirstMatch(Titles(items), fileName)
    IN  IF i # 0 THEN [id |-> items[i].ID, err |-> Nil]
        ELSE [id |-> NoId, err |-> itemNotFound(fileName)]

\* getFileByName after Items().Get succeeded, up to the call of Files().Read
getFileByName(files, fileName) ==
    LET i == FirstMatch(FileNames(files), fileName)
    IN  IF i # 0 THEN [attr |-> files[i], err |-> Nil]
        ELSE [attr |-> NoAttr, err |-> fileNotFound(fileName)]

\* if err != nil { AddError; return } is missing: Read goes on to State.Set
ReturnsOnErrorNever(err) == FALSE

\* if err != nil { AddError; return }
ReturnsOnError(err) == ~err.nil

\* pathElements[0], [1], [2] are in range
IndexInRange(elems) == Len(elems) >= 3

NoState == [set |-> FALSE, ID |-> <<>>, Value |-> StringNull]

----------------------------------------------------------------------------
(* secretReferenceDataSource.Read *)

ReadInit ==
    /\ pc = "idle"
    /\ ref = <<>>
    /\ resolvedReferenceValue = <<>>
    /\ pathElements = <<>>
    /\ vaultId = NoId
    /\ itemId = NoId
    /\ listing = <<>>
    /\ fileAttr = NoAttr
    /\ rawValue = <<>>
    /\ stateValue = StringNull
    /\ respState = NoState
    /\ diags = <<>>
    /\ calls = <<>>

\* the tail of Read: report err or set the state, and return
ReadEnd(err, value) ==
    /\ stateValue' = value
    /\ diags' = IF err.nil THEN diags
                ELSE Append(diags, Diag("Unable to read secret reference", Msg(err)))
    /\ respState' = IF ReturnsOnError(err) THEN respState
                    ELSE [set |-> TRUE, ID |-> ref, Value |-> value]
    /\ pc' = "done"

\* a framework call of Read with a configured data source
Read(r) ==
    /\ pc = "idle"
    /\ pc' = "Secrets.Resolve"
    /\ ref' = r
    /\ UNCHANGED <<resolvedReferenceValue, pathElements, vaultId, itemId, listing, fileAttr, rawValue,
                   stateValue, respState, diags, calls>>
    /\ UNCHANGED confVars

\* Secrets().Resolve returns, and Read runs up to its next client call
SecretsResolve(resolved, err) ==
    /\ pc = "Secrets.Resolve"
    /\ calls' = Append(calls, Call("Secrets.Resolve", ref, err))
    /\ resolvedReferenceValue' = resolved
    /\ IF ~err.nil /\ IsFileContentError(err)
       THEN IF SliceInRange(ref) /\ IndexInRange(Split(SkipPrefix(ref)))
            THEN /\ pathElements' = Split(SkipPrefix(ref))
                 /\ pc' = "Vaults.List"
                 /\ UNCHANGED <<stateValue, respState, diags>>
            ELSE \* run-time panic: slice bounds or index out of range
                 /\ pc' = "panic"
                 /\ UNCHANGED <<pathElements, stateValue, respState, diags>>
       ELSE /\ ReadEnd(err, DirectValue(resolved))
            /\ UNCHANGED pathElements
    /\ UNCHANGED <<ref, vaultId, itemId, listing, fileAttr, rawValue>>
    /\ UNCHANGED confVars

\* getVaultId: Vaults().List fails
VaultsListFails(err) ==
    /\ pc = "Vaults.List"
    /\ calls' = Append(calls, Call("Vaults.List", <<>>, err))
    /\ ReadEnd(err, stateValue)
    /\ UNCHANGED <<ref, resolvedReferenceValue, pathElements, vaultId, itemId, listing, fileAttr, rawValue>>
    /\ UNCHANGED confVars

\* getVaultId: Vaults().List returns the vaults, which are scanned
VaultsList(vaults) ==
    /\ pc = "Vaults.List"
    /\ calls' = Append(calls, Call("Vaults.List", <<>>, Nil))
    /\ listing' = vaults
    /\ LET r == getVaultId(vaults, pathElements[1])
       IN  IF r.err.nil
           THEN /\ vaultId' = r.id
                /\ pc' = "Items.List"
                /\ UNCHANGED <<stateValue, respState, diags>>
           ELSE /\ ReadEnd(r.err, stateValue)
                /\ UNCHANGED vaultId
    /\ UNCHANGED <<ref, resolvedReferenceValue, pathElements, itemId, fileAttr, rawValue>>
    /\ UNCHANGED confVars

\* getItemId: Items().List fails
ItemsListFails(err) ==
    /\ pc = "Items.List"
    /\ calls' = Append(calls, Call("Items.List", <<vaultId>>, err))
    /\ ReadEnd(err, stateValue)
    /\ listing' = <<>>
    /\ UNCHANGED <<ref, resolvedReferenceValue, pathElements, vaultId, itemId, fileAttr, rawValue>>
    /\ UNCHANGED confVars

\* getItemId: Items().List returns the items, which are scanned
ItemsList(items) ==
    /\ pc = "Items.List"
    /\ calls' = Append(calls, Call("Items.List", <<vaultId>>, Nil))
    /\ listing' = items
    /\ LET r == getItemId(items, pathElements[2])
       IN  IF r.err.nil
           THEN /\ itemId' = r.id
                /\ pc' = "Items.Get"
                /\ UNCHANGED <<stateValue, respState, diags>>
           ELSE /\ ReadEnd(r.err, stateValue)
                /\ UNCHANGED itemId
    /\ UNCHANGED <<ref, resolvedReferenceValue, pathElements, vaultId, fileAttr, rawValue>>
    /\ UNCHANGED confVars

\* getFileByName: Items().Get fails
ItemsGetFails(err) ==
    /\ pc = "Items.Get"
    /\ calls' = Append(calls, Call("Items.Get", <<vaultId, itemId>>, err))
    /\ ReadEnd(err, stateValue)
    /\ listing' = <<>>
    /\ UNCHANGED <<ref, resolvedReferenceValue, pathElements, vaultId, itemId, fileAttr, rawValue>>
    /\ UNCHANGED confVars

\* getFileByName: Items().Get returns the item, whose Files are scanned
ItemsGet(files) ==
    /\ pc = "Items.Get"
    /\ calls' = Append(calls, Call("Items.Get", <<vaultId, itemId>>, Nil))
    /\ listing' = files
    /\ LET r == getFileByName(files, pathElements[3])
       IN  IF r.err.nil
           THEN /\ fileAttr' = r.attr
                /\ pc' = "Files.Read"
                /\ UNCHANGED <<stateValue, respState, diags>>
           ELSE /\ ReadEnd(r.err, stateValue)
                /\ UNCHANGED fileAttr
    /\ UNCHANGED <<ref, resolvedReferenceValue, pathElements, vaultId, itemId, rawValue>>
    /\ UNCHANGED confVars

\* getFileByName: Files().Read fails
FilesReadFails(err) ==
    /\ pc = "Files.Read"
    /\ calls' = Append(calls, Call("Files.Read", <<vaultId, itemId, fileAttr.ID>>, err))
    /\ ReadEnd(err, stateValue)
    /\ listing' = <<>>
    /\ UNCHANGED <<ref, resolvedReferenceValue, pathElements, vaultId, itemId, fileAttr, rawValue>>
    /\ UNCHANGED confVars

\* getFileByName: Files().Read returns the content; Read encodes it and
\* sets the state
FilesRead(fileBytes) ==
    /\ pc = "Files.Read"
    /\ calls' = Append(calls, Call("Files.Read", <<vaultId, itemId, fileAttr.ID>>, Nil))
    /\ rawValue' = fileBytes
    /\ ReadEnd(Nil, FileValue(fileBytes))
    /\ listing' = <<>>
    /\ UNCHANGED <<ref, resolvedReferenceValue, pathElements, vaultId, itemId, fileAttr>>
    /\ UNCHANGED confVars

\* Read has returned; the next request starts from fresh locals and a fresh
\* response
ReadReturn ==
    /\ pc = "done"
    /\ pc' = "idle"
    /\ ref' = <<>>
    /\ resolvedReferenceValue' = <<>>
    /\ pathElements' = <<>>
    /\ vaultId' = NoId
    /\ itemId' = NoId
    /\ listing' = <<>>
    /\ fileAttr' = NoAttr
    /\ rawValue' = <<>>
    /\ stateValue' = StringNull
    /\ respState' = NoState
    /\ diags' = <<>>
    /\ calls' = <<>>
    /\ UNCHANGED confVars

----------------------------------------------------------------------------
(* OPSecretReferenceProvider.Configure *)

\* values of service_account_token and of OP_SERVICE_ACCOUNT_TOKEN
Tokens == SeqsUpTo(TokenChars, MaxStr)

ConfigTokens == { StringNull, StringUnknown } \cup { StringValue(t) : t \in Tokens }

NoClient == "nil"
Client == "client"

\* (IsUnknown() || ValueString() == "") && envToken == ""
TokenMissing(config, env) ==
    (IsUnknown(config) \/ ValueString(config) = <<>>) /\ env = <<>>

\* the token handed to NewClient
SelectToken(config, env) ==
    IF ~IsUnknown(config) /\ ValueString(config) # <<>>
    THEN StringString(config)
    ELSE env

MissingTokenDiag ==
    Diag("Unknown or missing Service Account Token",
         << "The provider cannot create the Onepassword API client as the service account token is missing. Either set the value statically in the configuration, or use the OP_SERVICE_ACCOUNT_TOKEN environment variable." >>)

ConfInit ==
    /\ ppc = "idle"
    /\ cfgToken = StringNull
    /\ envToken = <<>>
    /\ token = <<>>
    /\ newClientArgs = <<>>
    /\ pdiags = <<>>
    /\ dataSourceData = NoClient
    /\ resourceData = NoClient

\* req.Config.Get reports an error: Configure returns at once
ConfigureGetFails ==
    /\ ppc = "idle"
    /\ pdiags' = Append(pdiags, Diag("Value Conversion Error", << "config" >>))
    /\ ppc' = "done"
    /\ UNCHANGED <<cfgToken, envToken, token, newClientArgs, dataSourceData, resourceData>>
    /\ UNCHANGED readVars

\* Configure from its start to the call of onepassword.NewClient
Configure(config, env) ==
    /\ ppc = "idle"
    /\ cfgToken' = config
    /\ envToken' = env
    /\ pdiags' = IF TokenMissing(config, env)
                 THEN Append(pdiags, MissingTokenDiag)
                 ELSE pdiags
    /\ token' = SelectToken(config, env)
    /\ newClientArgs' = Append(newClientArgs, SelectToken(config, env))
    /\ ppc' = "NewClient"
    /\ UNCHANGED <<dataSourceData, resourceData>>
    /\ UNCHANGED readVars

\* onepassword.NewClient returns; Configure publishes the client unless an
\* error was reported
NewClientReturns(err) ==
    /\ ppc = "NewClient"
    /\ LET d == IF err.nil THEN pdiags
                ELSE Append(pdiags, Diag("Failed creating onepassword client", Msg(err)))
       IN  /\ pdiags' = d
           /\ dataSourceData' = IF HasError(d) THEN dataSourceData ELSE Client
           /\ resourceData' = IF HasError(d) THEN resourceData ELSE Client
    /\ ppc' = "done"
    /\ UNCHANGED <<cfgToken, envToken, token, newClientArgs>>
    /\ UNCHANGED readVars

\* Configure has returned; the next provider instance starts fresh
ConfigureReturn ==
    /\ ppc = "done"
    /\ ppc' = "idle"
    /\ cfgToken' = StringNull
    /\ envToken' = <<>>
    /\ token' = <<>>
    /\ newClientArgs' = <<>>
    /\ pdiags' = <<>>
    /\ dataSourceData' = NoClient
    /\ resourceData' = NoClient
    /\ UNCHANGED readVars

----------------------------------------------------------------------------
(* Specifications *)

Init == ReadInit /\ ConfInit

Next ==
    \/ \E r \in Refs : Read(r)
    \/ \E s \in Secrets : SecretsResolve(s, Nil)
    \/ \E m \in ClientErrorMsgs : SecretsResolve(<<>>, Error(m))
    \/ \E m \in ClientErrorMsgs : VaultsListFails(Error(m))
    \/ \E l \in VaultLists : VaultsList(l)
    \/ \E m \in ClientErrorMsgs : ItemsListFails(Error(m))
    \/ \E l \in ItemLists : ItemsList(l)
    \/ \E m \in ClientErrorMsgs : ItemsGetFails(Error(m))
    \/ \E l \in FileLists : ItemsGet(l)
    \/ \E m \in ClientErrorMsgs : FilesReadFails(Error(m))
    \/ \E b \in Contents : FilesRead(b)
    \/ ReadReturn

\* the resolution of secret references by a configured data source
Spec == Init /\ [][Next]_vars

NextConfigure ==
    \/ ConfigureGetFails
    \/ \E c \in ConfigTokens, e \in Tokens : Configure(c, e)
    \/ NewClientReturns(Nil)
    \/ NewClientReturns(Error(<< "invalid service account token" >>))
    \/ ConfigureReturn

\* the configuration of the provider
SpecConfigure == Init /\ [][NextConfigure]_vars

----------------------------------------------------------------------------
(* Vocabulary of the properties *)

Last(q) == q[Len(q)]

Ops(q) == [i \in 1..Len(q) |-> q[i].op]

FallbackOps == { "Vaults.List", "Items.List", "Items.Get", "Files.Read" }

FullOrder ==
    << "Secrets.Resolve", "Vaults.List", "Items.List", "Items.Get", "Files.Read" >>

IsPrefixOf(p, q) == Len(p) <= Len(q) /\ \A i \in 1..Len(p) : p[i] = q[i]

ReadError(detail) == Diag("Unable to read secret reference", detail)

\* the direct resolution was attempted and ...
DirectDone == Len(calls) >= 1 /\ calls[1].op = "Secrets.Resolve"
DirectSucceeded == DirectDone /\ calls[1].err.nil
DirectSentinel ==
    DirectDone /\ ~calls[1].err.nil /\ calls[1].err.msg = FileContentErrorMsg
DirectOtherError ==
    DirectDone /\ ~calls[1].err.nil /\ calls[1].err.msg # FileContentErrorMsg

\* the reference starts with op:// ; its segments after the prefix
HasPrefix == Len(ref) >= 5 /\ SubSeq(ref, 1, 5) = Prefix
Segments == Split(SubSeq(ref, 6, Len(ref)))

\* the last client call was op and succeeded, so that listing is its answer
Listed(op) == Len(calls) >= 1 /\ Last(calls).op = op /\ Last(calls).err.nil

\* positions of the entries of the listing whose Title, or Name, is name
TitleHits(name) == { i \in 1..Len(listing) : listing[i].Title = name }
NameHits(name) == { i \in 1..Len(listing) : listing[i].Name = name }

Min(S) == CHOOSE i \in S : \A j \in S : i <= j

\* value of one base64 character
B64Val(c) == (CHOOSE i \in 1..64 : Alphabet[i] = c) - 1

InAlphabet(c) == \E i \in 1..64 : Alphabet[i] = c

\* s is the canonical padded base64 text of the bytes b, read back group by
\* group
RECURSIVE IsBase64Of(_, _)
IsBase64Of(s, b) ==
    IF Len(s) = 0 THEN Len(b) = 0
    ELSE /\ Len(s) >= 4
         /\ InAlphabet(s[1]) /\ InAlphabet(s[2])
         /\ IF s[3] = "=" THEN
                /\ Len(s) = 4 /\ s[4] = "=" /\ Len(b) = 1
                /\ B64Val(s[1]) * 4 + (B64Val(s[2]) \div 16) = b[1]
                /\ B64Val(s[2]) % 16 = 0
            ELSE IF s[4] = "=" THEN
                /\ Len(s) = 4 /\ InAlphabet(s[3]) /\ Len(b) = 2
                /\ B64Val(s[1]) * 4 + (B64Val(s[2]) \div 16) = b[1]
                /\ (B64Val(s[2]) % 16) * 16 + (B64Val(s[3]) \div 4) = b[2]
                /\ B64Val(s[3]) % 4 = 0
            ELSE
                /\ InAlphabet(s[3]) /\ InAlphabet(s[4]) /\ Len(b) >= 3
                /\ B64Val(s[1]) * 4 + (B64Val(s[2]) \div 16) = b[1]
                /\ (B64Val(s[2]) % 16) * 16 + (B64Val(s[3]) \div 4) = b[2]
                /\ (B64Val(s[3]) % 4) * 64 + B64Val(s[4]) = b[3]
                /\ IsBase64Of(SubSeq(s, 5, Len(s)), SubSeq(b, 4, Len(b)))

----------------------------------------------------------------------------
(* Properties of Read *)

\* C1: when the direct Secrets.Resolve fails with a message other than the
\* file-content message, Read ends with exactly that message reported and
\* has made no vault, item or file call.
C1_OtherErrorIsTerminal ==
    DirectOtherError =>
        /\ pc = "done"
        /\ diags = << ReadError(calls[1].err.msg) >>
        /\ Len(calls) = 1
        /\ \A i \in 1..Len(calls) : calls[i].op \notin FallbackOps

\* C1 witness: a direct failure whose message only contains the
\* file-content message has ended the Read.
C1_Witness ==
    /\ DirectOtherError
    /\ pc = "done"
    /\ calls[1].err.msg = << "rpc: " >> \o FileContentErrorMsg

C3_DirectValueUnmodified ==
    DirectSucceeded =>
        /\ pc = "done"
        /\ diags = <<>>
        /\ respState = [set |-> TRUE, ID |-> ref,
                        Value |-> [kind |-> "known", value |-> resolvedReferenceValue]]
        /\ Len(calls) = 1

\* C3 witness: a directly resolved secret with surrounding whitespace was
\* set as it is.
C3_Witness ==
    /\ DirectSucceeded
    /\ pc = "done"
    /\ resolvedReferenceValue = << " ", "s" >>
    /\ respState.set
    /\ respState.Value.value = << " ", "s" >>

\* C4: each lookup takes the first entry in listing order whose Title or
\* Name equals the requested name: its ID is the vault ID or item ID used,
\* its attributes are the ones handed to Files.Read, whatever follows it.
C4_FirstMatchWins ==
    /\ (Listed("Vaults.List") /\ TitleHits(pathElements[1]) # {}) =>
           vaultId = listing[Min(TitleHits(pathElements[1]))].ID
    /\ (Listed("Items.List") /\ TitleHits(pathElements[2]) # {}) =>
           itemId = listing[Min(TitleHits(pathElements[2]))].ID
    /\ (Listed("Items.Get") /\ NameHits(pathElements[3]) # {}) =>
           fileAttr = listing[Min(NameHits(pathElements[3]))]
    /\ \A i \in 1..Len(calls) :
           /\ calls[i].op = "Items.List" => calls[i].arg = << vaultId >>
           /\ calls[i].op = "Items.Get" => calls[i].arg = << vaultId, itemId >>
           /\ calls[i].op = "Files.Read" =>
                  calls[i].arg = << vaultId, itemId, fileAttr.ID >>

\* C4 witness: the item has two attachments of the requested name, and the
\* first one is about to be read.
C4_Witness ==
    /\ Listed("Items.Get")
    /\ pc = "Files.Read"
    /\ Len(listing) = 2
    /\ listing[1].Name = pathElements[3]
    /\ listing[2].Name = pathElements[3]
    /\ listing[1].ID # listing[2].ID
    /\ fileAttr = listing[1]

\* C5: a fetched vault, item or attachment list without the requested name
\* ends the Read with an error naming the kind of the missing level and the
\* path segment searched at that level.
C5_NotFoundNamesKindAndName ==
    /\ (Listed("Vaults.List") /\ TitleHits(Segments[1]) = {}) =>
           /\ pc = "done"
           /\ diags = << ReadError(<< "vault '" >> \o Segments[1] \o << "' not found" >>) >>
    /\ (Listed("Items.List") /\ TitleHits(Segments[2]) = {}) =>
           /\ pc = "done"
           /\ diags = << ReadError(<< "item '" >> \o Segments[2] \o << "' not found" >>) >>
    /\ (Listed("Items.Get") /\ NameHits(Segments[3]) = {}) =>
           /\ pc = "done"
           /\ diags = << ReadError(<< "file '" >> \o Segments[3] \o << "' not found" >>) >>

\* C5 witness: the vault was found, and its item list holds an item, but
\* none of the requested title.
C5_Witness ==
    /\ Listed("Items.List")
    /\ Len(listing) >= 1
    /\ TitleHits(Segments[2]) = {}
    /\ pc = "done"
    /\ HasError(diags)

\* C10: a failing client call (other than the file-content failure of the
\* direct resolution) or a lookup without a match is the last call of the
\* Read; no call is made twice; the failing step's message is the only one
\* reported; and nothing is written to the response state.
C10_ErrorsAreTerminal ==
    /\ \A i \in 1..Len(calls) :
           (~calls[i].err.nil /\ ~(i = 1 /\ DirectSentinel)) =>
               /\ i = Len(calls)
               /\ pc = "done"
               /\ diags = << ReadError(calls[i].err.msg) >>
               /\ ~respState.set
    /\ \A i, j \in 1..Len(calls) : calls[i].op = calls[j].op => i = j
    /\ ( \/ (Listed("Vaults.List") /\ TitleHits(pathElements[1]) = {})
         \/ (Listed("Items.List") /\ TitleHits(pathElements[2]) = {})
         \/ (Listed("Items.Get") /\ NameHits(pathElements[3]) = {}) ) =>
           /\ pc = "done"
           /\ Len(diags) = 1
           /\ ~respState.set
    /\ HasError(diags) => (pc = "done" /\ Len(diags) = 1 /\ respState = NoState)

\* C10 witness: the vault and the item were found and Items.Get failed;
\* the Read ended there with that failure reported.
C10_Witness ==
    /\ pc = "done"
    /\ Len(calls) = 4
    /\ calls[4].op = "Items.Get"
    /\ calls[4].err = Error(<< "permission denied" >>)
    /\ diags = << ReadError(<< "permission denied" >>) >>
    /\ ~respState.set

\* C6 (as claimed): a reference with fewer than three segments that enters
\* the fallback ends the Read with an error reported, without a crash and
\* without a vault, item or file call.
C6_ShortReferenceReported ==
    (DirectSentinel /\ HasPrefix /\ Len(Segments) < 3) =>
        /\ pc # "panic"
        /\ pc = "done"
        /\ HasError(diags)
        /\ Len(calls) = 1

----------------------------------------------------------------------------
(* Properties of Configure *)

\* neither the configuration nor the environment gives a token
NoToken ==
    /\ ppc # "idle"
    /\ (cfgToken.kind # "known" \/ cfgToken.value = <<>>)
    /\ envToken = <<>>

\* C8 (as claimed): without a token from either source, a missing-credential
\* error is reported, NewClient is never called and no client is published.
C8_MissingTokenAborts ==
    NoToken =>
        /\ HasError(pdiags)
        /\ newClientArgs = <<>>
        /\ dataSourceData = NoClient
        /\ resourceData = NoClient

\* C9 (as claimed): the token handed to NewClient is the configured value,
\* character for character, when it is known and not empty, and the value of
\* OP_SERVICE_ACCOUNT_TOKEN otherwise.
C9_TokenPassedUnchanged ==
    \A i \in 1..Len(newClientArgs) :
        newClientArgs[i] =
            IF cfgToken.kind = "known" /\ cfgToken.value # <<>>
            THEN cfgToken.value
            ELSE envToken

====
